---- MODULE Spec2Model ----
(***************************************************************************)
(* The per-key sliding-window rate limiter of the time tracker             *)
(* (internal/shared/middleware/rate_limit.go) as a state machine.          *)
(*                                                                         *)
(* Time is counted in ticks of 1/TicksPerSec second, so that ages which    *)
(* are not a whole number of seconds exist.  A goroutine calling Allow     *)
(* goes through: call -> Lock -> read the clock and filter -> decide and   *)
(* store -> deferred Unlock.  The cleanup goroutine loops over a select on *)
(* its ticker and on the cleanupStop channel.                              *)
(*                                                                         *)
(* Beside the limiter (Spec, SpecLife) the module holds the key extractor  *)
(* getClientIP on strings (SpecKey), the handler chain of app.go with the  *)
(* admission middleware (SpecHTTP), and the session service over the       *)
(* sessions table, one SQL statement per step (SpecSess).                  *)
(***************************************************************************)
EXTENDS Integers, Sequences, FiniteSets, TLC

\* ---------------------------------------------------------------- bounds
TicksPerSec == 2     \* clock resolution: ticks per second
MaxLimit == 2        \* largest limit handed to NewRateLimiter
MaxCalls == 3        \* Allow calls made in one behaviour
MaxAdvances == 2     \* clock readings, in one behaviour, at which the clock had moved on
MaxStrLen == 3       \* longest X-Forwarded-For and RemoteAddr handed to getClientIP
MaxReqs == 3         \* requests sent through the handler chain in one behaviour
MaxSessOps == 4
MaxShutdowns == 2      \* StartSession and StopSession calls made in one behaviour

\* ------------------------------------------------------ program constants
WindowSec == 60                      \* window: time.Minute
Window == WindowSec * TicksPerSec    \* the window in ticks

Keys == {"A", "B"}                   \* client addresses
Procs == {"g1", "g2"}                \* request goroutines
LimitInputs == -1..MaxLimit          \* arguments of NewRateLimiter
Deltas == {0, 1, Window - 1, Window} \* by how much the clock has moved on at a reading

\* the same, and a wait that ends one tick before the next whole second
WaitDeltas == Deltas \cup {Window - 2}

IndexPanic == "index out of range"
ClosePanic == "close of closed channel"

VARIABLES
    constructed,   \* NewRateLimiter has returned
    limit,         \* rl.limit
    requests,      \* rl.requests: a map, key -> sequence of timestamps
    mu,            \* rl.mu: "free" or the holder
    cleanupStop,   \* rl.cleanupStop: "open" or "closed"
    cpc,           \* position of the cleanup goroutine
    now,           \* the clock at the latest time.Now()
    advances,      \* readings so far at which the clock had moved on
    pc,            \* position of each request goroutine in Allow
    ip,            \* Allow's argument, per goroutine
    tnow,          \* Allow's local now, per goroutine
    validRequests, \* Allow's local validRequests, per goroutine
    panics,        \* the run-time panics raised so far
    last,          \* history: the Allow call that was decided last
    calls,         \* history: per key, the number of Allow calls decided
    first,         \* history: per key, the time of its first Allow call (-1: none)
    admitted,      \* history: per key, the times of the calls that were allowed
    solo,          \* per key: a limiter that is sent that key's calls only
    lean,          \* a limiter that is not sent the rejected calls
    bare,          \* a limiter whose cleanup goroutine never makes a pass
    req,           \* the request in hand: its headers, peer address and context
    key,           \* what getClientIP returned for it (the middleware's ip)
    allowRet,      \* the middleware's allowed, retryAfter
    stage,         \* the handler of the chain that is to run next
    resp,          \* the response writer: headers, status, body
    trail,         \* the handlers that ran for the request, and the request each got
    nreq,          \* requests begun so far
    rows,          \* the sessions table: row i has id i
    spc,           \* position of each goroutine in StartSession / StopSession
    seen,          \* the row GetRunning returned to the goroutine, and endedAt
    slast,         \* the latest StartSession / StopSession call that returned
    nops,          \* session calls begun
    app,           \* the process that owns the App: none, up, exited, panicked
    srv,           \* a.server: new, listening, draining, closed
    db,            \* a.db: none, open, closed
    sdpc,          \* position of the call of App.Shutdown that is under way
    nshut,         \* calls of App.Shutdown begun so far
    stops,         \* calls of rateLimiter.Stop made so far
    hpc            \* position of each handler goroutine of the server

limiterVars == <<constructed, limit, requests, mu, cleanupStop, cpc>>
clockVars == <<now, advances>>
procVars == <<pc, ip, tnow, validRequests>>
ghostVars == <<last, calls, first, admitted, solo, lean, bare>>
httpVars == <<req, key, allowRet, stage, resp, trail, nreq>>
sessVars == <<rows, spc, seen, slast, nops>>
appVars == <<app, srv, db, sdpc, nshut, stops, hpc>>
extVars == <<httpVars, sessVars, appVars>>
vars == <<constructed, limit, requests, mu, cleanupStop, cpc, now, advances,
          pc, ip, tnow, validRequests, panics, last, calls, first, admitted,
          solo, lean, bare, req, key, allowRet, stage, resp, trail, nreq,
          rows, spc, seen, slast, nops,
          app, srv, db, sdpc, nshut, stops, hpc>>

\* ------------------------------------------------------------ Go's map
EmptyMap == [k \in {} |-> <<>>]

\* (mutant) one window shared by all keys: the entry read is not the key's own
GetAny(m, k) == IF DOMAIN m # {} THEN m[CHOOSE x \in DOMAIN m : TRUE] ELSE <<>>

\* m[k] of a Go map: the zero value (a nil slice) for an absent key
Get(m, k) == IF k \in DOMAIN m THEN m[k] ELSE <<>>

\* (mutant) the map is replaced by one that holds the written key only
PutAlone(m, k, v) == [x \in {k} |-> v]

\* (mutant) the new sequence is added to the stored one, not put in its place
PutAppend(m, k, v) ==
    [x \in (DOMAIN m) \cup {k} |-> IF x = k THEN Get(m, k) \o v ELSE m[x]]

\* m[k] = v
Put(m, k, v) == [x \in (DOMAIN m) \cup {k} |-> IF x = k THEN v ELSE m[x]]

\* --------------------------------------------------------- Allow, pure
\* (mutant) !t.Before(windowStart): an entry exactly one window old is kept
InWindowClosed(t, n) == t >= n - Window

\* t.After(windowStart), windowStart = now - window
InWindow(t, n) == t > n - Window

\* (mutant) Allow stores the sequence without filtering it
PruneNone(s, n) == s

\* the filter loop of Allow
Prune(s, n) == SelectSeq(s, LAMBDA t : InWindow(t, n))

\* int(f) of Go: truncation toward zero, of the quotient n/d
Trunc(n, d) == IF n >= 0 THEN n \div d ELSE 0 - ((0 - n) \div d)

\* (mutant) the result is not raised to 1
RetryAfterNoFloor(n, oldest) == Trunc(Window - (n - oldest), TicksPerSec)

\* retryAfter := int(window.Seconds() - now.Sub(oldest).Seconds()), at least 1
RetryAfter(n, oldest) ==
    LET r == Trunc(Window - (n - oldest), TicksPerSec)
    IN  IF r < 1 THEN 1 ELSE r

\* (mutant) len(validRequests) > rl.limit
OverLimitStrict(valid, lim) == Len(valid) > lim

\* len(validRequests) >= rl.limit
OverLimit(valid, lim) == Len(valid) >= lim

\* (mutant) a rejected attempt is recorded too
DecideConsume(valid, lim, n) ==
    IF OverLimit(valid, lim)
    THEN IF Len(valid) = 0
         THEN [kind |-> "panic", store |-> <<>>, ok |-> FALSE, retry |-> 0]
         ELSE [kind |-> "ret", store |-> Append(valid, n), ok |-> FALSE,
               retry |-> RetryAfter(n, valid[1])]
    ELSE [kind |-> "ret", store |-> Append(valid, n), ok |-> TRUE, retry |-> 0]

\* The decision of Allow on the filtered sequence: what is stored and returned.
\* Indexing validRequests[0] of an empty slice panics.
Decide(valid, lim, n) ==
    IF OverLimit(valid, lim)
    THEN IF Len(valid) = 0
         THEN [kind |-> "panic", store |-> <<>>, ok |-> FALSE, retry |-> 0]
         ELSE [kind |-> "ret", store |-> valid, ok |-> FALSE,
               retry |-> RetryAfter(n, valid[1])]
    ELSE [kind |-> "ret", store |-> Append(valid, n), ok |-> TRUE, retry |-> 0]

\* One whole Allow(k) at time n on the map m: the map afterwards and the result.
AllowOn(m, k, lim, n) ==
    LET d == Decide(Prune(Get(m, k), n), lim, n)
    IN  [map |-> IF d.kind = "panic" THEN m ELSE Put(m, k, d.store),
         kind |-> d.kind, ok |-> d.ok, retry |-> d.retry]

\* ------------------------------------------------------- cleanup, pure
\* (mutant) the cleanup loop's window is one tick shorter than Allow's
FreshShort(t, n) == n - t < Window - 1

\* now.Sub(t) < rl.window
Fresh(t, n) == n - t < Window

\* (mutant) the pass empties the map
CleanupOnAll(m, n) == EmptyMap

\* (mutant) the pass prunes but deletes no key
CleanupOnKeepKeys(m, n) ==
    [k \in DOMAIN m |-> SelectSeq(m[k], LAMBDA t : Fresh(t, n))]

\* one pass of the cleanup loop over the whole map
CleanupOn(m, n) ==
    LET valid(k) == SelectSeq(m[k], LAMBDA t : Fresh(t, n))
        keep == {k \in DOMAIN m : Len(valid(k)) # 0}
    IN  [k \in keep |-> valid(k)]

\* what a call returned: kind is "ret", or "panic" when it did not return
Result(r) == [kind |-> r.kind, ok |-> r.ok, retry |-> r.retry]

NoCall == [key |-> "A", t |-> -1, pre |-> <<>>, post |-> <<>>, kind |-> "none", ok |-> FALSE,
           retry |-> 0,
           solo |-> [kind |-> "none", ok |-> FALSE, retry |-> 0],
           lean |-> [kind |-> "none", ok |-> FALSE, retry |-> 0],
           leanpre |-> <<>>,
           bare |-> [kind |-> "none", ok |-> FALSE, retry |-> 0]]

\* -------------------------------------------------------------- strings
\* A string is a sequence of one-character strings; "a" and "b" stand for the
\* characters of an address.
Strings(alphabet, n) == UNION {[1..m -> alphabet] : m \in 0..n}

\* s[a:b] of Go, indices from 0
Slice(s, a, b) == SubSeq(s, a + 1, b)

\* strings.IndexByte(s, c): the first index of c from 0, or -1
IndexByte(s, c) ==
    IF \E i \in 1..Len(s) : s[i] = c
    THEN (CHOOSE i \in 1..Len(s) : s[i] = c /\ \A j \in 1..(i - 1) : s[j] # c) - 1
    ELSE -1

\* strings.LastIndexByte(s, c): the last index of c from 0, or -1
LastIndexByte(s, c) ==
    IF \E i \in 1..Len(s) : s[i] = c
    THEN (CHOOSE i \in 1..Len(s) : s[i] = c /\ \A j \in (i + 1)..Len(s) : s[j] # c) - 1
    ELSE -1

\* strings.TrimSpace(s): without its leading and trailing white space
TrimSpace(s) ==
    LET ink == {i \in 1..Len(s) : s[i] # " "}
    IN  IF ink = {} THEN <<>>
        ELSE SubSeq(s, CHOOSE i \in ink : \A j \in ink : i <= j,
                       CHOOSE i \in ink : \A j \in ink : i >= j)

\* strings.Split(s, ",")[0]: s up to its first comma
FirstPart(s) ==
    IF IndexByte(s, ",") = -1 THEN s ELSE Slice(s, 0, IndexByte(s, ","))

\* a request: r.Header.Get of the two proxy headers ("" when absent),
\* r.RemoteAddr, and whether r.Context() carries the CSP nonce
NoReq == [xff |-> <<>>, xri |-> <<>>, remoteAddr |-> <<>>, nonce |-> FALSE]

\* (mutant) X-Real-IP is looked at before X-Forwarded-For
getClientIPRealFirst(r) ==
    LET xff == TrimSpace(r.xff)
        fst == TrimSpace(FirstPart(xff))
        xri == TrimSpace(r.xri)
        addr == r.remoteAddr
    IN  IF xri # <<>> THEN xri
        ELSE IF xff # <<>> /\ fst # <<>> THEN fst
        ELSE IF Len(addr) > 0 /\ addr[1] = "[" /\ IndexByte(addr, "]") # -1
             THEN Slice(addr, 1, IndexByte(addr, "]"))
        ELSE IF LastIndexByte(addr, ":") # -1
             THEN Slice(addr, 0, LastIndexByte(addr, ":"))
        ELSE addr

\* getClientIP(r)
getClientIP(r) ==
    LET xff == TrimSpace(r.xff)
        fst == TrimSpace(FirstPart(xff))
        xri == TrimSpace(r.xri)
        addr == r.remoteAddr
    IN  IF xff # <<>> /\ fst # <<>> THEN fst
        ELSE IF xri # <<>> THEN xri
        ELSE IF Len(addr) > 0 /\ addr[1] = "[" /\ IndexByte(addr, "]") # -1
             THEN Slice(addr, 1, IndexByte(addr, "]"))
        ELSE IF LastIndexByte(addr, ":") # -1
             THEN Slice(addr, 0, LastIndexByte(addr, ":"))
        ELSE addr

\* the requests handed to getClientIP
KeyInputs ==
    [xff : Strings({"a", ",", " "}, MaxStrLen),
     xri : {<<>>, <<"b">>, <<" ">>, <<" ", "b">>},
     remoteAddr : Strings({"a", ":", "[", "]"}, MaxStrLen),
     nonce : {FALSE}]

\* ------------------------------------------------------------ responses
NoRet == [kind |-> "none", ok |-> FALSE, retry |-> 0]

\* a response writer nothing was written to
NoResp == [headers |-> EmptyMap, status |-> 0, body |-> ""]

StatusTooManyRequests == 429
StatusInternalServerError == 500

\* the statuses the routes of the mux answer with
MuxStatuses == {200, 401, 404}

Digits == <<"0", "1", "2", "3", "4", "5", "6", "7", "8", "9">>

RECURSIVE ItoaNat(_)
ItoaNat(n) ==
    IF n < 10 THEN <<Digits[n + 1]>>
    ELSE ItoaNat(n \div 10) \o <<Digits[(n % 10) + 1]>>

\* (mutant) the number of seconds is written without its last digit
ItoaShort(n) == IF n < 0 THEN <<"-">> \o ItoaNat((-n) \div 10) ELSE ItoaNat(n \div 10)

\* strconv.Itoa(n): n in decimal
Itoa(n) == IF n < 0 THEN <<"-">> \o ItoaNat(-n) ELSE ItoaNat(n)

\* w.Header().Set(k, v)
SetHeader(w, k, v) == [w EXCEPT !.headers = Put(w.headers, k, v)]

\* w.WriteHeader(code); w.Write(body)
WriteResponse(w, code, body) == [w EXCEPT !.status = code, !.body = body]

\* what a handler did: the response writer after it, and the requests it
\* handed to next.ServeHTTP
Handled(w, nxt) == [w |-> w, next |-> nxt]

\* SecurityHeadersMiddleware: the nonce of the request's context goes into the
\* policy when the context has one
SecurityHeadersMiddleware(r, w) ==
    LET w1 == SetHeader(w, "X-Content-Type-Options", "nosniff")
        w2 == SetHeader(w1, "X-Frame-Options", "DENY")
        w3 == SetHeader(w2, "X-XSS-Protection", "1; mode=block")
        w4 == SetHeader(w3, "Content-Security-Policy",
                        IF r.nonce THEN "script-src 'self' 'nonce-'" ELSE "script-src 'self'")
    IN  Handled(w4, <<r>>)

\* nonceMiddleware: rand.Read fails, or the nonce is put in the context
nonceMiddleware(r, w, randOk) ==
    IF ~randOk
    THEN Handled(WriteResponse(
                    SetHeader(SetHeader(w, "Content-Type", "text/plain; charset=utf-8"),
                              "X-Content-Type-Options", "nosniff"),
                    StatusInternalServerError, "failed to generate nonce"),
                 <<>>)
    ELSE Handled(w, <<[r EXCEPT !.nonce = TRUE]>>)

\* (mutant) the success path announces the quota in a header
RateLimitMiddlewareQuota(ret, r, w) ==
    IF ret.kind = "panic" THEN Handled(w, <<>>)
    ELSE IF ~ret.ok
    THEN Handled(WriteResponse(
                    SetHeader(SetHeader(w, "Content-Type", "application/json"),
                              "Retry-After", Itoa(ret.retry)),
                    StatusTooManyRequests, "RATE_LIMITED"),
                 <<>>)
    ELSE Handled(SetHeader(w, "X-RateLimit-Limit", "limit"), <<r>>)

\* RateLimitMiddleware after limiter.Allow(ip) returned ret; a panic of Allow
\* ends the handler with nothing written
RateLimitMiddleware(ret, r, w) ==
    IF ret.kind = "panic" THEN Handled(w, <<>>)
    ELSE IF ~ret.ok
    THEN Handled(WriteResponse(
                    SetHeader(SetHeader(w, "Content-Type", "application/json"),
                              "Retry-After", Itoa(ret.retry)),
                    StatusTooManyRequests, "RATE_LIMITED"),
                 <<>>)
    ELSE Handled(w, <<r>>)

\* (mutant) the limiter wraps the other two middlewares
ChainLimiterOutermost == <<"ratelimit", "security", "nonce", "mux">>

\* the handlers from the outermost to the router: SecurityHeadersMiddleware(
\* nonceMiddleware(RateLimitMiddleware(limiter)(mux)))
Chain == <<"security", "nonce", "ratelimit", "mux">>

\* the handler that stage s hands its request to
After(s) == Chain[(CHOOSE i \in 1..Len(Chain) : Chain[i] = s) + 1]

\* the requests sent to the server
HTTPInputs ==
    [xff : {<<>>, <<"a">>},
     xri : {<<>>},
     remoteAddr : {<<"a", ":", "a">>, <<"b", ":", "a">>},
     nonce : {FALSE}]

\* ------------------------------------------------------------- sessions
SessionStatusRunning == "running"
SessionStatusStopped == "stopped"

ErrSessionAlreadyRunning == "ErrSessionAlreadyRunning"
ErrNoRunningSession == "ErrNoRunningSession"

\* a NULL column
Null == -1

\* FormatRFC3339(t): the text of the instant t, which spells whole seconds;
\* a text is written here as the second it spells
FormatRFC3339(t) == t \div TicksPerSec

\* time.Parse(time.RFC3339, s): the instant the text s spells
ParseRFC3339(sec) == sec * TicksPerSec

\* int64(endTime.Sub(startTime).Seconds())
DurationSec(startedAt, endedAt) ==
    Trunc(ParseRFC3339(endedAt) - ParseRFC3339(startedAt), TicksPerSec)

\* the ids of the rows with status = 'running'
RunningIDs(t) == {i \in 1..Len(t) : t[i].status = SessionStatusRunning}

\* the row the INSERT of Create writes
NewRow(startedAt) ==
    [status |-> SessionStatusRunning, started_at |-> startedAt,
     ended_at |-> Null, duration_sec |-> Null]

\* the row after the UPDATE of StopRunning; the duration is computed from the
\* started_at that GetRunning returned
StoppedRow(row, startedAt, endedAt) ==
    [row EXCEPT !.status = SessionStatusStopped,
                !.ended_at = endedAt,
                !.duration_sec = DurationSec(startedAt, endedAt)]

\* nothing read yet
NoSeen == [id |-> 0, started_at |-> Null, ended_at |-> Null]

\* what a call returned: its session id (0: nil) and its error ("": nil)
SessionCall(op, id, err) == [op |-> op, id |-> id, err |-> err]
NoSessionCall == SessionCall("none", 0, "")

\* ----------------------------------------------------------------- Init
InitAt(a) ==
    /\ constructed = FALSE
    /\ limit = 0
    /\ requests = EmptyMap
    /\ mu = "free"
    /\ cleanupStop = "open"
    /\ cpc = "off"
    /\ now = 0
    /\ advances = a
    /\ pc = [p \in Procs |-> "idle"]
    /\ ip = [p \in Procs |-> "A"]
    /\ tnow = [p \in Procs |-> 0]
    /\ validRequests = [p \in Procs |-> <<>>]
    /\ panics = {}
    /\ last = NoCall
    /\ calls = [k \in Keys |-> 0]
    /\ first = [k \in Keys |-> -1]
    /\ admitted = [k \in Keys |-> <<>>]
    /\ solo = [k \in Keys |-> EmptyMap]
    /\ lean = EmptyMap
    /\ bare = EmptyMap
    /\ req = NoReq
    /\ key = <<>>
    /\ allowRet = NoRet
    /\ stage = "idle"
    /\ resp = NoResp
    /\ trail = <<>>
    /\ nreq = 0
    /\ rows = <<>>
    /\ spc = [p \in Procs |-> "idle"]
    /\ seen = [p \in Procs |-> NoSeen]
    /\ slast = NoSessionCall
    /\ nops = 0
    /\ app = "none"
    /\ srv = "new"
    /\ db = "none"
    /\ sdpc = "idle"
    /\ nshut = 0
    /\ stops = 0
    /\ hpc = [p \in Procs |-> "idle"]

Init == InitAt(0)

\* the same, with a clock that moves on at one reading of the behaviour at most
InitSlowClock == InitAt(MaxAdvances - 1)

\* -------------------------------------------------------------- actions
\* NewRateLimiter(l): builds the limiter and starts the cleanup goroutine
NewRateLimiter(l) ==
    /\ ~constructed
    /\ constructed' = TRUE
    /\ limit' = l
    /\ requests' = EmptyMap
    /\ cleanupStop' = "open"
    /\ cpc' = "select"
    /\ UNCHANGED <<mu, clockVars, procVars, panics, ghostVars>>
    /\ UNCHANGED extVars

\* time.Now(): the clock never runs backwards; it has moved on by d since the
\* latest reading
TimeNow(d) ==
    /\ d # 0 => advances < MaxAdvances
    /\ now' = now + d
    /\ advances' = IF d # 0 THEN advances + 1 ELSE advances

\* Allow calls begun so far
Begun == calls["A"] + calls["B"] + Cardinality({q \in Procs : pc[q] # "idle"})

\* a goroutine calls Allow(k) and reaches rl.mu.Lock()
AllowCall(p, k) ==
    /\ constructed
    /\ pc[p] = "idle"
    /\ Begun < MaxCalls
    /\ pc' = [pc EXCEPT ![p] = "lock"]
    /\ ip' = [ip EXCEPT ![p] = k]
    /\ UNCHANGED <<limiterVars, clockVars, tnow, validRequests, panics, ghostVars>>
    /\ UNCHANGED extVars

\* (mutant) no mutual exclusion: Lock returns at once
CanLockNoWait(m) == TRUE

\* rl.mu.Lock() returns only when the mutex is free
CanLock(m) == m = "free"

\* (mutant) Unlock without defer: a panic leaves the mutex with its holder
UnlockOnReturn(holder, kind) == IF kind = "panic" THEN holder ELSE "free"

\* defer rl.mu.Unlock(): runs when Allow returns and when it panics
Unlock(holder, kind) == "free"

\* rl.mu.Lock()
AllowLock(p) ==
    /\ pc[p] = "lock"
    /\ CanLock(mu)
    /\ mu' = p
    /\ pc' = [pc EXCEPT ![p] = "read"]
    /\ UNCHANGED <<constructed, limit, requests, cleanupStop, cpc, clockVars,
                   ip, tnow, validRequests, panics, ghostVars>>
    /\ UNCHANGED extVars

\* now := time.Now() and the filter loop
AllowRead(p, d) ==
    /\ pc[p] = "read"
    /\ TimeNow(d)
    /\ tnow' = [tnow EXCEPT ![p] = now']
    /\ validRequests' = [validRequests EXCEPT ![p] = Prune(Get(requests, ip[p]), now')]
    /\ pc' = [pc EXCEPT ![p] = "decide"]
    /\ UNCHANGED <<limiterVars, ip, panics, ghostVars>>
    /\ UNCHANGED extVars

\* the decision, the store into rl.requests, and the return (or the panic) with
\* its deferred rl.mu.Unlock()
AllowDecide(p) ==
    /\ pc[p] = "decide"
    /\ LET k == ip[p]
           d == Decide(validRequests[p], limit, tnow[p])
           s == AllowOn(solo[k], k, limit, tnow[p])
           l == AllowOn(lean, k, limit, tnow[p])
           b == AllowOn(bare, k, limit, tnow[p])
       IN  /\ requests' = IF d.kind = "panic" THEN requests ELSE Put(requests, k, d.store)
           /\ panics' = IF d.kind = "panic" THEN panics \cup {IndexPanic} ELSE panics
           /\ last' = [key |-> k, t |-> tnow[p], pre |-> Get(requests, k),
                       post |-> Get(requests', k),
                       kind |-> d.kind, ok |-> d.ok, retry |-> d.retry,
                       solo |-> Result(s), lean |-> Result(l),
                       leanpre |-> Get(lean, k), bare |-> Result(b)]
           /\ calls' = [calls EXCEPT ![k] = @ + 1]
           /\ first' = [first EXCEPT ![k] = IF @ = -1 THEN tnow[p] ELSE @]
           /\ admitted' = [admitted EXCEPT ![k] = IF d.ok THEN Append(@, tnow[p]) ELSE @]
           /\ solo' = [solo EXCEPT ![k] = s.map]
           /\ lean' = IF d.ok THEN l.map ELSE lean
           /\ bare' = b.map
           /\ mu' = Unlock(p, d.kind)
    /\ pc' = [pc EXCEPT ![p] = "idle"]
    /\ tnow' = [tnow EXCEPT ![p] = 0]
    /\ validRequests' = [validRequests EXCEPT ![p] = <<>>]
    /\ ip' = [ip EXCEPT ![p] = "A"]
    /\ UNCHANGED <<constructed, limit, cleanupStop, cpc, clockVars>>
    /\ UNCHANGED extVars

\* Allow(k) from Lock to Unlock as one step, for calls that do not overlap:
\* the clock has moved on by d since the call before
AllowWhole(k, d) ==
    /\ constructed
    /\ mu = "free"
    /\ \A p \in Procs : pc[p] = "idle"
    /\ Begun < MaxCalls
    /\ TimeNow(d)
    /\ LET r == AllowOn(requests, k, limit, now')
           s == AllowOn(solo[k], k, limit, now')
           l == AllowOn(lean, k, limit, now')
           b == AllowOn(bare, k, limit, now')
       IN  /\ requests' = r.map
           /\ panics' = IF r.kind = "panic" THEN panics \cup {IndexPanic} ELSE panics
           /\ last' = [key |-> k, t |-> now', pre |-> Get(requests, k),
                       post |-> Get(requests', k),
                       kind |-> r.kind, ok |-> r.ok, retry |-> r.retry,
                       solo |-> Result(s), lean |-> Result(l),
                       leanpre |-> Get(lean, k), bare |-> Result(b)]
           /\ calls' = [calls EXCEPT ![k] = @ + 1]
           /\ first' = [first EXCEPT ![k] = IF @ = -1 THEN now' ELSE @]
           /\ admitted' = [admitted EXCEPT ![k] = IF r.ok THEN Append(@, now') ELSE @]
           /\ solo' = [solo EXCEPT ![k] = s.map]
           /\ lean' = IF r.ok THEN l.map ELSE lean
           /\ bare' = b.map
    /\ UNCHANGED <<constructed, limit, mu, cleanupStop, cpc, procVars>>
    /\ UNCHANGED extVars

\* cleanup: case <-ticker.C, up to rl.mu.Lock()
CleanupTick ==
    /\ cpc = "select"
    /\ cpc' = "lock"
    /\ UNCHANGED <<constructed, limit, requests, mu, cleanupStop, clockVars,
                   procVars, panics, ghostVars>>
    /\ UNCHANGED extVars

\* cleanup: rl.mu.Lock()
CleanupLock ==
    /\ cpc = "lock"
    /\ CanLock(mu)
    /\ mu' = "cleanup"
    /\ cpc' = "pass"
    /\ UNCHANGED <<constructed, limit, requests, cleanupStop, clockVars,
                   procVars, panics, ghostVars>>
    /\ UNCHANGED extVars

\* cleanup: the loop over rl.requests, and rl.mu.Unlock()
CleanupPass(d) ==
    /\ cpc = "pass"
    /\ TimeNow(d)
    /\ requests' = CleanupOn(requests, now')
    /\ solo' = [k \in Keys |-> CleanupOn(solo[k], now')]
    /\ lean' = CleanupOn(lean, now')
    /\ mu' = "free"
    /\ cpc' = "select"
    /\ UNCHANGED <<constructed, limit, cleanupStop, procVars,
                   panics, last, calls, first, admitted, bare>>
    /\ UNCHANGED extVars

\* (mutant) the select of the cleanup loop has no case for cleanupStop
CleanupExitMissing == FALSE /\ UNCHANGED vars

\* cleanup: case <-rl.cleanupStop, which a closed channel makes ready
CleanupExit ==
    /\ cpc = "select"
    /\ cleanupStop = "closed"
    /\ cpc' = "done"
    /\ UNCHANGED <<constructed, limit, requests, mu, cleanupStop, clockVars,
                   procVars, panics, ghostVars>>
    /\ UNCHANGED extVars

\* close(ch): closing a closed channel panics
CloseChan(ch) ==
    IF ch = "open" THEN [ch |-> "closed", panic |-> FALSE]
                   ELSE [ch |-> ch, panic |-> TRUE]

\* Stop(): close(rl.cleanupStop)
Stop ==
    /\ constructed
    /\ LET c == CloseChan(cleanupStop)
       IN  /\ cleanupStop' = c.ch
           /\ panics' = IF c.panic THEN panics \cup {ClosePanic} ELSE panics
    /\ UNCHANGED <<constructed, limit, requests, mu, cpc, clockVars, procVars, ghostVars>>
    /\ UNCHANGED extVars

\* getClientIP applied to the request in hand
ExtractKey ==
    /\ stage = "extract"
    /\ key' = getClientIP(req)
    /\ stage' = "extracted"
    /\ UNCHANGED <<limiterVars, clockVars, procVars, panics, ghostVars,
                   req, allowRet, resp, trail, nreq>>
    /\ UNCHANGED <<sessVars, appVars>>

\* a request reaches the outermost handler
Arrive(r) ==
    /\ constructed
    /\ stage \in {"idle", "done"}
    /\ nreq < MaxReqs
    /\ nreq' = nreq + 1
    /\ req' = r
    /\ key' = <<>>
    /\ allowRet' = NoRet
    /\ resp' = NoResp
    /\ stage' = Chain[1]
    /\ trail' = <<[stage |-> Chain[1], req |-> r, w |-> NoResp]>>
    /\ UNCHANGED <<limiterVars, clockVars, procVars, panics, ghostVars>>
    /\ UNCHANGED <<sessVars, appVars>>

\* the handler of stage s has returned or called next.ServeHTTP
Forward(s, out) ==
    /\ resp' = out.w
    /\ IF out.next = <<>>
       THEN stage' = "done" /\ req' = req /\ trail' = trail
       ELSE /\ stage' = After(s)
            /\ req' = out.next[Len(out.next)]
            /\ trail' = trail \o [i \in 1..Len(out.next) |->
                                    [stage |-> After(s), req |-> out.next[i], w |-> out.w]]

SecurityStage ==
    /\ stage = "security"
    /\ Forward("security", SecurityHeadersMiddleware(req, resp))
    /\ UNCHANGED <<limiterVars, clockVars, procVars, panics, ghostVars,
                   key, allowRet, nreq>>
    /\ UNCHANGED <<sessVars, appVars>>

NonceStage(randOk) ==
    /\ stage = "nonce"
    /\ Forward("nonce", nonceMiddleware(req, resp, randOk))
    /\ UNCHANGED <<limiterVars, clockVars, procVars, panics, ghostVars,
                   key, allowRet, nreq>>
    /\ UNCHANGED <<sessVars, appVars>>

\* the rate-limit handler: the key, the Allow call under the mutex, and the
\* rejection or the call of next
RateLimitStage(d) ==
    /\ stage = "ratelimit"
    /\ mu = "free"
    /\ TimeNow(d)
    /\ LET ip0 == getClientIP(req)
           a == AllowOn(requests, ip0, limit, now')
           ret == [kind |-> a.kind, ok |-> a.ok, retry |-> a.retry]
       IN  /\ key' = ip0
           /\ requests' = a.map
           /\ allowRet' = ret
           /\ panics' = IF a.kind = "panic" THEN panics \cup {IndexPanic} ELSE panics
           /\ Forward("ratelimit", RateLimitMiddleware(ret, req, resp))
    /\ UNCHANGED <<constructed, limit, mu, cleanupStop, cpc, procVars, ghostVars, nreq>>
    /\ UNCHANGED <<sessVars, appVars>>

\* the router and the route's handler answer
MuxStage(st) ==
    /\ stage = "mux"
    /\ resp' = WriteResponse(resp, st, "route")
    /\ stage' = "done"
    /\ UNCHANGED <<limiterVars, clockVars, procVars, panics, ghostVars,
                   req, key, allowRet, trail, nreq>>
    /\ UNCHANGED <<sessVars, appVars>>

\* the sessions are left alone by a step of the limiter's clock
SessionFrame ==
    UNCHANGED <<limiterVars, procVars, panics, ghostVars, httpVars, appVars>>

\* StartSession up to the answer of GetRunning: a running session is returned
\* with ErrSessionAlreadyRunning; LIMIT 1 gives any one of the running rows
StartCheck(p) ==
    /\ spc[p] = "idle"
    /\ nops < MaxSessOps
    /\ nops' = nops + 1
    /\ IF RunningIDs(rows) = {}
       THEN spc' = [spc EXCEPT ![p] = "create"] /\ slast' = slast
       ELSE /\ \E id \in RunningIDs(rows) :
                   slast' = SessionCall("start", id, ErrSessionAlreadyRunning)
            /\ spc' = spc
    /\ UNCHANGED <<rows, seen, clockVars>>
    /\ SessionFrame

\* StartSession: repo.Create, the INSERT with started_at = NowRFC3339()
StartCreate(p, d) ==
    /\ spc[p] = "create"
    /\ TimeNow(d)
    /\ rows' = Append(rows, NewRow(FormatRFC3339(now')))
    /\ slast' = SessionCall("start", Len(rows'), "")
    /\ spc' = [spc EXCEPT ![p] = "idle"]
    /\ UNCHANGED <<seen, nops>>
    /\ SessionFrame

\* StopSession up to endedAt := NowRFC3339() of StopRunning: no running row
\* gives ErrNoRunningSession
StopCheck(p, d) ==
    /\ spc[p] = "idle"
    /\ nops < MaxSessOps
    /\ nops' = nops + 1
    /\ IF RunningIDs(rows) = {}
       THEN /\ slast' = SessionCall("stop", 0, ErrNoRunningSession)
            /\ UNCHANGED <<spc, seen, clockVars>>
       ELSE /\ TimeNow(d)
            /\ \E id \in RunningIDs(rows) :
                   seen' = [seen EXCEPT ![p] =
                               [id |-> id, started_at |-> rows[id].started_at,
                                ended_at |-> FormatRFC3339(now')]]
            /\ spc' = [spc EXCEPT ![p] = "update"]
            /\ slast' = slast
    /\ UNCHANGED rows
    /\ SessionFrame

\* StopSession: the UPDATE ... WHERE id = running.ID, and the answer
StopUpdate(p) ==
    /\ spc[p] = "update"
    /\ rows' = [rows EXCEPT ![seen[p].id] =
                    StoppedRow(@, seen[p].started_at, seen[p].ended_at)]
    /\ slast' = SessionCall("stop", seen[p].id, "")
    /\ spc' = [spc EXCEPT ![p] = "idle"]
    /\ seen' = [seen EXCEPT ![p] = NoSeen]
    /\ UNCHANGED <<nops, clockVars>>
    /\ SessionFrame

\* the limiter under request traffic, with its cleanup goroutine
Next ==
    \/ \E l \in LimitInputs : NewRateLimiter(l)
    \/ \E p \in Procs, k \in Keys : AllowCall(p, k)
    \/ \E p \in Procs : AllowLock(p)
    \/ \E p \in Procs, d \in Deltas : AllowRead(p, d)
    \/ \E p \in Procs : AllowDecide(p)
    \/ CleanupTick
    \/ CleanupLock
    \/ \E d \in Deltas : CleanupPass(d)

Spec == Init /\ [][Next]_vars

\* the limiter over its whole life: the owning process may call Stop at any time
NextLife ==
    \/ Next
    \/ CleanupExit
    \/ Stop

SpecLife == Init /\ [][NextLife]_vars

\* Scheduling: a goroutine that can take a step takes it; sync.Mutex hands the
\* lock to a goroutine that keeps waiting for it (starvation mode); a select
\* with a ready case for the closed stop channel takes it sooner or later.
\* The ticker need never fire.
Fairness ==
    /\ \A p \in Procs :
          /\ SF_vars(AllowLock(p))
          /\ WF_vars(\E d \in Deltas : AllowRead(p, d))
          /\ WF_vars(AllowDecide(p))
    /\ SF_vars(CleanupLock)
    /\ WF_vars(\E d \in Deltas : CleanupPass(d))
    /\ SF_vars(CleanupExit)

SpecFair == InitSlowClock /\ [][NextLife]_vars /\ Fairness

\* the limiter under calls that come one after the other
NextWait ==
    \/ \E l \in LimitInputs : NewRateLimiter(l)
    \/ \E k \in Keys, d \in WaitDeltas : AllowWhole(k, d)

SpecWait == Init /\ [][NextWait]_vars

\* ------------------------------------------------------------ the App
AppFrame ==
    UNCHANGED <<requests, mu, clockVars, procVars, ghostVars, httpVars, sessVars>>

\* app.New: database.New, ..., middleware.NewRateLimiter(cfg.RateLimit),
\* &http.Server{...}; l is cfg.RateLimit
AppNew(l) ==
    /\ app = "none"
    /\ ~constructed
    /\ app' = "up"
    /\ db' = "open"
    /\ constructed' = TRUE
    /\ limit' = l
    /\ cleanupStop' = "open"
    /\ cpc' = "select"
    /\ UNCHANGED <<srv, sdpc, nshut, stops, hpc, panics>>
    /\ AppFrame

\* App.Run: a.server.ListenAndServe()
AppRun ==
    /\ app = "up"
    /\ srv = "new"
    /\ srv' = "listening"
    /\ UNCHANGED <<app, db, sdpc, nshut, stops, hpc, limiterVars, panics>>
    /\ AppFrame

\* the server accepts a request and starts its handler goroutine
ServeAdmit(p) ==
    /\ app = "up"
    /\ srv = "listening"
    /\ hpc[p] = "idle"
    /\ hpc' = [hpc EXCEPT ![p] = "admitted"]
    /\ UNCHANGED <<app, srv, db, sdpc, nshut, stops, limiterVars, panics>>
    /\ AppFrame

\* the handler runs its statement on a.db (an error when a.db is closed)
ServeQuery(p) ==
    /\ app = "up"
    /\ hpc[p] = "admitted"
    /\ hpc' = [hpc EXCEPT ![p] = "queried"]
    /\ UNCHANGED <<app, srv, db, sdpc, nshut, stops, limiterVars, panics>>
    /\ AppFrame

\* the handler returns
ServeDone(p) ==
    /\ app = "up"
    /\ hpc[p] = "queried"
    /\ hpc' = [hpc EXCEPT ![p] = "idle"]
    /\ UNCHANGED <<app, srv, db, sdpc, nshut, stops, limiterVars, panics>>
    /\ AppFrame

\* App.Shutdown is called
ShutdownBegin ==
    /\ app = "up"
    /\ sdpc = "idle"
    /\ nshut < MaxShutdowns
    /\ nshut' = nshut + 1
    /\ sdpc' = "stop"
    /\ UNCHANGED <<app, srv, db, stops, hpc, limiterVars, panics>>
    /\ AppFrame

\* App.Shutdown: a.rateLimiter.Stop(); its panic ends the call and, not
\* being recovered, the process
ShutdownStop ==
    /\ app = "up"
    /\ sdpc = "stop"
    /\ stops' = stops + 1
    /\ LET c == CloseChan(cleanupStop)
       IN  /\ cleanupStop' = c.ch
           /\ panics' = IF c.panic THEN panics \cup {ClosePanic} ELSE panics
           /\ sdpc' = IF c.panic THEN "idle" ELSE "close"
           /\ app' = IF c.panic THEN "panicked" ELSE app
    /\ UNCHANGED <<srv, db, nshut, hpc, constructed, limit, cpc>>
    /\ AppFrame

\* App.Shutdown: a.db.Close()
ShutdownCloseDB ==
    /\ app = "up"
    /\ sdpc = "close"
    /\ db' = "closed"
    /\ sdpc' = "server"
    /\ UNCHANGED <<app, srv, nshut, stops, hpc, limiterVars, panics>>
    /\ AppFrame

\* App.Shutdown: a.server.Shutdown(ctx) closes the listeners
ShutdownServer ==
    /\ app = "up"
    /\ sdpc = "server"
    /\ srv' = "draining"
    /\ sdpc' = "drain"
    /\ UNCHANGED <<app, db, nshut, stops, hpc, limiterVars, panics>>
    /\ AppFrame

\* a.server.Shutdown(ctx) returns nil: no handler is running any more
ShutdownDrained ==
    /\ app = "up"
    /\ sdpc = "drain"
    /\ \A p \in Procs : hpc[p] = "idle"
    /\ srv' = "closed"
    /\ sdpc' = "idle"
    /\ UNCHANGED <<app, db, nshut, stops, hpc, limiterVars, panics>>
    /\ AppFrame

\* a.server.Shutdown(ctx) returns ctx.Err(): handlers still run after 10 s
ShutdownTimeout ==
    /\ app = "up"
    /\ sdpc = "drain"
    /\ \E p \in Procs : hpc[p] # "idle"
    /\ sdpc' = "idle"
    /\ UNCHANGED <<app, srv, db, nshut, stops, hpc, limiterVars, panics>>
    /\ AppFrame

\* the process exits after a call of App.Shutdown has returned
Exit ==
    /\ app = "up"
    /\ sdpc = "idle"
    /\ nshut >= 1
    /\ app' = "exited"
    /\ UNCHANGED <<srv, db, sdpc, nshut, stops, hpc, limiterVars, panics>>
    /\ AppFrame

NextApp ==
    \/ \E l \in LimitInputs : AppNew(l)
    \/ AppRun
    \/ \E p \in Procs : ServeAdmit(p)
    \/ \E p \in Procs : ServeQuery(p)
    \/ \E p \in Procs : ServeDone(p)
    \/ ShutdownBegin
    \/ ShutdownStop
    \/ ShutdownCloseDB
    \/ ShutdownServer
    \/ ShutdownDrained
    \/ ShutdownTimeout
    \/ CleanupExit
    \/ Exit

SpecApp == Init /\ [][NextApp]_vars

\* the key extractor on every request of the bounded set
InitKey ==
    /\ constructed = FALSE
    /\ limit = 0
    /\ requests = EmptyMap
    /\ mu = "free"
    /\ cleanupStop = "open"
    /\ cpc = "off"
    /\ now = 0
    /\ advances = 0
    /\ pc = [p \in Procs |-> "idle"]
    /\ ip = [p \in Procs |-> "A"]
    /\ tnow = [p \in Procs |-> 0]
    /\ validRequests = [p \in Procs |-> <<>>]
    /\ panics = {}
    /\ last = NoCall
    /\ calls = [k \in Keys |-> 0]
    /\ first = [k \in Keys |-> -1]
    /\ admitted = [k \in Keys |-> <<>>]
    /\ solo = [k \in Keys |-> EmptyMap]
    /\ lean = EmptyMap
    /\ bare = EmptyMap
    /\ req \in KeyInputs
    /\ key = <<>>
    /\ allowRet = NoRet
    /\ stage = "extract"
    /\ resp = NoResp
    /\ trail = <<>>
    /\ nreq = 0
    /\ rows = <<>>
    /\ spc = [p \in Procs |-> "idle"]
    /\ seen = [p \in Procs |-> NoSeen]
    /\ slast = NoSessionCall
    /\ nops = 0
    /\ app = "none"
    /\ srv = "new"
    /\ db = "none"
    /\ sdpc = "idle"
    /\ nshut = 0
    /\ stops = 0
    /\ hpc = [p \in Procs |-> "idle"]

NextKey == ExtractKey

\* the server's handler chain, one request after the other
NextHTTP ==
    \/ \E l \in LimitInputs : NewRateLimiter(l)
    \/ \E r \in HTTPInputs : Arrive(r)
    \/ SecurityStage
    \/ \E randOk \in BOOLEAN : NonceStage(randOk)
    \/ \E d \in Deltas : RateLimitStage(d)
    \/ \E st \in MuxStatuses : MuxStage(st)

SpecHTTP == Init /\ [][NextHTTP]_vars

\* the session service under concurrent requests
NextSess ==
    \/ \E p \in Procs : StartCheck(p)
    \/ \E p \in Procs, d \in Deltas : StartCreate(p, d)
    \/ \E p \in Procs, d \in Deltas : StopCheck(p, d)
    \/ \E p \in Procs : StopUpdate(p)

SpecSess == Init /\ [][NextSess]_vars

SpecKey == InitKey /\ [][NextKey]_vars

\* ================================================================ claims
\* helpers of the statements below
Decided == last.kind # "none"
Returned == last.kind = "ret"
Rejected == last.kind = "ret" /\ ~last.ok

\* the entries of the key that were still counted when the last call decided
Counted == SelectSeq(last.pre, LAMBDA t : t > last.t - Window)

\* the number of rejected calls of key k so far
Rejections(k) == calls[k] - Len(admitted[k])

\* the admitted calls of key k with a timestamp in the window (T - Window, T]
AdmittedIn(k, T) ==
    {j \in 1..Len(admitted[k]) : admitted[k][j] > T - Window /\ admitted[k][j] <= T}

\* the least whole number of seconds that is at least n ticks
CeilSec(n) == (n + TicksPerSec - 1) \div TicksPerSec

\* C1: under every interleaving of concurrent Allow calls and cleanup passes,
\* for every key, the calls that were allowed with a timestamp inside a
\* trailing window (T - window, T] number at most limit.  It is enough to take
\* for T the timestamps of the allowed calls: a window holding the most
\* allowed calls can be moved to end at the last of them.
C1_WindowNeverExceedsLimit ==
    \A k \in Keys : \A i \in 1..Len(admitted[k]) :
        Cardinality(AdmittedIn(k, admitted[k][i])) <= limit

\* C1 witness: the quota of a key is used up with one goroutine about to be
\* rejected for it while the other waits for the mutex with the same key
C1_Witness ==
    /\ limit >= 1
    /\ pc["g1"] = "decide" /\ pc["g2"] = "lock"
    /\ ip["g1"] = ip["g2"]
    /\ Len(admitted[ip["g1"]]) >= limit
    /\ Len(validRequests["g1"]) >= limit

\* C2: quota exactness.  With limit N >= 1, of the calls for a key that fall
\* within one window of the key's first call ever, the first N return (true, 0)
\* and the (N+1)-th returns allowed = false.
C2_QuotaExact ==
    (Decided /\ limit >= 1 /\ last.t - first[last.key] < Window) =>
        /\ calls[last.key] <= limit =>
              (last.kind = "ret" /\ last.ok /\ last.retry = 0)
        /\ calls[last.key] = limit + 1 => Rejected

\* C2 witness: the third call for a key within one window, limit 2, rejected
C2_Witness ==
    /\ limit = 2
    /\ calls[last.key] = 3
    /\ last.t - first[last.key] < Window
    /\ Rejected

\* C3: a rejected call returns a retryAfter of at least 1 and at most the window
\* in seconds, and an allowed call returns 0.
C3_RetryAfterBounds ==
    Returned =>
        /\ last.ok => last.retry = 0
        /\ ~last.ok => (1 <= last.retry /\ last.retry <= WindowSec)

\* C3 witness: a call rejected when the oldest counted entry has less than one
\* second left in the window, where the truncated difference is 0
C3_Witness ==
    /\ Rejected
    /\ last.t - Counted[1] = Window - 1
    /\ last.retry = 1

\* C4: on rejection retryAfter is max(1, ceil(window - (now - oldestRemaining)))
\* in whole seconds: a remainder below one second is rounded up.
C4_RetryAfterIsCeiling ==
    Rejected =>
        last.retry = (IF CeilSec(Window - (last.t - Counted[1])) < 1 THEN 1
                      ELSE CeilSec(Window - (last.t - Counted[1])))

\* C5: no double-consumption.  A rejected call stores the pruned sequence and
\* nothing else, and every call returns what it returns in the run from which
\* the rejected calls before it are left out.
C5_RejectedCallConsumesNothing ==
    /\ Rejected => last.post = Counted
    /\ Decided => Result(last) = last.lean

\* C5 witness: a key has been rejected, its oldest entry has aged out, and the
\* next call for it is allowed
C5_Witness ==
    /\ limit >= 1
    /\ Returned /\ last.ok
    /\ Rejections(last.key) >= 1
    /\ Len(last.pre) >= limit
    /\ Len(Counted) < Len(last.pre)

\* C6: recovery.  When a key holds limit entries (limit >= 1) and at least one
\* window has passed since the oldest of them, exactly one window included, the
\* next call is allowed and afterwards the key holds only timestamps inside the
\* window that ends at that call.
C6_Recovery ==
    (Returned /\ limit >= 1 /\ Len(last.pre) >= limit
        /\ last.t - last.pre[1] >= Window) =>
        /\ last.ok
        /\ \A i \in 1..Len(last.post) :
              last.post[i] > last.t - Window /\ last.post[i] <= last.t

\* C6 witness: the call comes exactly one window after the oldest entry of an
\* exhausted key
C6_Witness ==
    /\ limit >= 1
    /\ Returned /\ last.ok
    /\ Len(last.pre) = limit
    /\ last.t - last.pre[1] = Window

\* C7: key independence.  Every call for a key returns what it returns in the
\* run in which no call for any other key is made.
C7_KeyIndependence ==
    Decided => Result(last) = last.solo

\* C7 witness: key A is exhausted and has been rejected, and a call for key B
\* is allowed
C7_Witness ==
    /\ limit >= 1
    /\ Returned /\ last.ok /\ last.key = "B"
    /\ Rejections("A") >= 1

\* C8: a limiter is never constructed with a limit <= 0: no such limiter
\* reaches the state in which Allow can be called.
C8_NonPositiveLimitRejected ==
    constructed => limit > 0

\* C9: Allow never fails: no call ends in a panic (such as indexing the first
\* element of an empty sequence).
C9_AllowNeverPanics ==
    IndexPanic \notin panics /\ last.kind # "panic"

\* C10: Stop is idempotent: a second or later Stop call raises no panic (and
\* so leaves the limiter as the first call left it).
C10_StopIdempotent ==
    ClosePanic \notin panics


\* --------------------------------------------------------- key extraction
\* s is white space only
Blank(s) == \A i \in 1..Len(s) : s[i] = " "

\* t is s without its leading and trailing white space
TrimOf(t, s) ==
    \E a, b \in 0..Len(s) :
        /\ a + b <= Len(s) \/ t = <<>>
        /\ \A i \in 1..a : s[i] = " "
        /\ \A i \in (Len(s) - b + 1)..Len(s) : s[i] = " "
        /\ IF Blank(s) THEN t = <<>>
           ELSE /\ t = SubSeq(s, a + 1, Len(s) - b)
                /\ t[1] # " "
                /\ t[Len(t)] # " "

\* e is the first comma-separated element of s
FirstElementOf(e, s) ==
    /\ \A i \in 1..Len(e) : e[i] # ","
    /\ \/ e = s
       \/ /\ Len(s) > Len(e)
          /\ SubSeq(s, 1, Len(e)) = e
          /\ s[Len(e) + 1] = ","

\* h is the peer address a without its port: [v6]:port -> v6, host:port ->
\* host, an address with no colon -> unchanged
PeerHostOf(h, a) ==
    IF a # <<>> /\ a[1] = "[" /\ \E i \in 1..Len(a) : a[i] = "]"
    THEN \E i \in 1..Len(a) :
            /\ a[i] = "]"
            /\ h = SubSeq(a, 2, i - 1)
            /\ \A j \in 1..Len(h) : h[j] # "]"
    ELSE IF \E i \in 1..Len(a) : a[i] = ":"
    THEN \E i \in 1..Len(a) :
            /\ a[i] = ":"
            /\ h = SubSeq(a, 1, i - 1)
            /\ \A j \in (i + 1)..Len(a) : a[j] # ":"
    ELSE h = a

\* the contiguous pieces of s
Pieces(s) == {SubSeq(s, a, b) : a \in 1..(Len(s) + 1), b \in 0..Len(s)}

\* the first element of the forwarded-for list, trimmed
ForwardedFirstOf(e, x) ==
    \E t \in Pieces(x) :
        /\ TrimOf(t, x)
        /\ \E f \in Pieces(t) : FirstElementOf(f, t) /\ TrimOf(e, f)

Extracted == stage = "extracted"

RECURSIVE Atoi(_)
Atoi(s) ==
    IF s = <<>> \/ \E i \in 1..Len(s) : \A d \in 1..10 : Digits[d] # s[i] THEN -1
    ELSE LET units == (CHOOSE d \in 1..10 : Digits[d] = s[Len(s)]) - 1
         IN  IF Len(s) = 1 THEN units
             ELSE 10 * Atoi(SubSeq(s, 1, Len(s) - 1)) + units

\* the handlers entered for the request in hand
Entered(name) == {i \in 1..Len(trail) : trail[i].stage = name}

\* Allow has returned for the request in hand: rejected, admitted
HTTPRejected == allowRet.kind = "ret" /\ ~allowRet.ok
HTTPAdmitted == allowRet.kind = "ret" /\ allowRet.ok

\* C11: a request whose Allow call returned allowed = false never reaches the
\* downstream handler, is answered 429, and its Retry-After header spells the
\* retryAfter of that call, which is at least 1.
C11_RejectionPath ==
    HTTPRejected =>
        /\ stage = "done"
        /\ Entered("mux") = {}
        /\ resp.status = StatusTooManyRequests
        /\ "Retry-After" \in DOMAIN resp.headers
        /\ Atoi(resp.headers["Retry-After"]) = allowRet.retry
        /\ allowRet.retry >= 1

\* a rejection with a two-digit delay
C11_Witness ==
    /\ HTTPRejected
    /\ allowRet.retry >= 10
    /\ resp.status = StatusTooManyRequests

\* C12: a request whose Allow call returned allowed = true enters the
\* downstream handler exactly once, with the request the middleware was given,
\* and with the response writer as the middleware found it: no header, status
\* or body of the middleware's.
C12_SuccessPath ==
    HTTPAdmitted =>
        /\ Cardinality(Entered("mux")) = 1
        /\ \A i \in Entered("ratelimit") : \A j \in Entered("mux") :
              /\ j = i + 1
              /\ trail[j].req = trail[i].req
              /\ trail[j].w = trail[i].w

\* an admitted request that was answered by a route
C12_Witness ==
    /\ HTTPAdmitted
    /\ stage = "done"
    /\ resp.status = 200
    /\ Entered("mux") # {}

PassStep == cpc = "pass" /\ cpc' = "select"

\* the timestamps of s less than one window old at time n
Younger(s, n) == SelectSeq(s, LAMBDA t : n - t < Window)

\* C14: after a pass of the cleanup loop no key is left whose timestamps are
\* all at least one window old, every key left holds exactly its timestamps
\* younger than the window, and a key with such a timestamp is not deleted.
C14_Reclamation ==
    [][PassStep =>
         /\ \A k \in DOMAIN requests :
               (\A i \in 1..Len(requests[k]) : now' - requests[k][i] >= Window)
                  => k \notin DOMAIN requests'
         /\ \A k \in DOMAIN requests' :
               /\ k \in DOMAIN requests
               /\ requests'[k] = Younger(requests[k], now')
         /\ \A k \in DOMAIN requests :
               (\E i \in 1..Len(requests[k]) : now' - requests[k][i] < Window)
                  => k \in DOMAIN requests']_vars

\* a pass has deleted key A and has left key B
C14_Witness ==
    /\ cpc = "select"
    /\ mu = "free"
    /\ Len(admitted["A"]) >= 1
    /\ "A" \notin DOMAIN requests
    /\ "B" \in DOMAIN requests
    /\ \A p \in Procs : pc[p] = "idle"

\* C15: every Allow call returns what the same call returns on a limiter that
\* is sent the same calls at the same times and whose cleanup loop never
\* makes a pass.
C15_ReclaimerTransparency == Decided => Result(last) = last.bare

\* a call that returned after a pass had deleted its key's entry
C15_Witness ==
    /\ Returned
    /\ calls[last.key] >= 2
    /\ last.pre = <<>>
    /\ last.key \in DOMAIN bare
    /\ last.bare.kind = "ret"

\* C19: with limit >= 1 no key ever holds more than limit timestamps.
C19_PerKeyBound ==
    limit >= 1 => \A k \in DOMAIN requests : Len(requests[k]) <= limit

\* a key holds limit timestamps, and a call of it has been rejected
C19_Witness ==
    /\ limit >= 1
    /\ Rejected
    /\ Len(requests[last.key]) = limit


\* ---------------------------------------------------------- stored windows
\* s is non-decreasing
Sorted(s) == \A i, j \in 1..Len(s) : i <= j => s[i] <= s[j]

\* a step in which goroutine p's Allow call stores and returns
DecideStep(p) == pc[p] = "decide" /\ pc'[p] = "idle"

\* C20: every key's stored sequence is non-decreasing; right after Allow(key)
\* returned at time t every timestamp stored for the key lies in
\* [t - window, t]; and the call leaves the sequences of the other keys as
\* they were.
C20_PerKeyWindow ==
    /\ [](/\ \A k \in DOMAIN requests : Sorted(requests[k])
          /\ Returned =>
                \A i \in 1..Len(last.post) :
                    last.t - Window <= last.post[i] /\ last.post[i] <= last.t)
    /\ [][\A p \in Procs : DecideStep(p) =>
             \A k \in DOMAIN requests :
                 k # ip[p] => k \in DOMAIN requests' /\ requests'[k] = requests[k]]_vars

\* a call has returned while the other key still holds a timestamp that has
\* left the window
C20_Witness ==
    /\ Returned
    /\ last.post # <<>>
    /\ \E k \in DOMAIN requests :
          /\ k # last.key
          /\ requests[k] # <<>>
          /\ requests[k][1] <= last.t - Window


\* ---------------------------------------------------------------- sessions
\* steps of goroutine p: StartSession gets its answer from GetRunning,
\* StartSession inserts, StopSession gets its answer from GetRunning,
\* StopSession updates
StartCheckStep(p) == spc[p] = "idle" /\ nops' # nops /\ seen' = seen /\ now' = now
                     /\ (spc'[p] = "create" \/ slast'.op = "start")
CreateStep(p) == spc[p] = "create" /\ spc'[p] = "idle"
StopRefusedStep(p) ==
    spc[p] = "idle" /\ nops' # nops /\ spc' = spc /\ slast'.op = "stop"
UpdateStep(p) == spc[p] = "update" /\ spc'[p] = "idle"

\* no session call is in flight
Quiet == \A p \in Procs : spc[p] = "idle"

\* the rows other than row i are the same before and after the step
OthersUnchanged(i) ==
    /\ Len(rows') = Len(rows)
    /\ \A j \in 1..Len(rows) : j # i => rows'[j] = rows[j]

\* C17: while a session is running, StartSession returns
\* ErrSessionAlreadyRunning with that session and inserts no row; after a
\* StopSession that succeeded, StartSession succeeds again.
C17_SessionConflict ==
    /\ [][\A p \in Procs : CreateStep(p) => RunningIDs(rows) = {}]_vars
    /\ [][\A p \in Procs :
            StartCheckStep(p) /\ RunningIDs(rows) # {} =>
                /\ slast'.err = ErrSessionAlreadyRunning
                /\ RunningIDs(rows) = {slast'.id}
                /\ spc'[p] = "idle"
                /\ rows' = rows]_vars
    /\ [][\A p \in Procs :
            StartCheckStep(p) /\ Quiet /\ slast.op = "stop" /\ slast.err = "" =>
                spc'[p] = "create"]_vars

\* C18: StartSession inserts a running row with started_at and without
\* ended_at and duration_sec; a StopSession that succeeds moves the one
\* running session, and no other row, to stopped with ended_at set and
\* duration_sec = ended_at - started_at >= 0; a stopped session stays
\* stopped; StopSession with no running session returns ErrNoRunningSession
\* and changes no row.
C18_SessionLifecycle ==
    /\ [][\A p \in Procs : CreateStep(p) =>
            /\ Len(rows') = Len(rows) + 1
            /\ SubSeq(rows', 1, Len(rows)) = rows
            /\ rows'[Len(rows')].status = SessionStatusRunning
            /\ rows'[Len(rows')].started_at # Null
            /\ rows'[Len(rows')].ended_at = Null
            /\ rows'[Len(rows')].duration_sec = Null]_vars
    /\ [][\A p \in Procs : UpdateStep(p) =>
            /\ RunningIDs(rows) = {slast'.id}
            /\ slast'.err = ""
            /\ OthersUnchanged(slast'.id)
            /\ rows'[slast'.id].status = SessionStatusStopped
            /\ rows'[slast'.id].started_at = rows[slast'.id].started_at
            /\ rows'[slast'.id].ended_at # Null
            /\ rows'[slast'.id].duration_sec =
                  rows'[slast'.id].ended_at - rows'[slast'.id].started_at
            /\ rows'[slast'.id].duration_sec >= 0]_vars
    /\ [][\A i \in 1..Len(rows) :
            rows[i].status = SessionStatusStopped =>
                rows'[i].status = SessionStatusStopped]_vars
    /\ [][\A p \in Procs : StopRefusedStep(p) =>
            /\ RunningIDs(rows) = {}
            /\ slast'.err = ErrNoRunningSession
            /\ rows' = rows]_vars
    /\ [][\A p \in Procs :
            spc[p] = "idle" /\ spc'[p] = "update" => RunningIDs(rows) # {}]_vars


\* ------------------------------------------------------------ the mutex
\* goroutine p is between rl.mu.Lock() and rl.mu.Unlock()
InAllowSection(p) == pc[p] \in {"read", "decide"}

\* the critical sections that are active
ActiveSections ==
    {p \in Procs : InAllowSection(p)} \cup (IF cpc = "pass" THEN {"cleanup"} ELSE {})

\* C21: every access of the map is made by the holder of the mutex; two
\* critical sections (two Allow calls, or an Allow call and a cleanup pass)
\* are never active together; and what an Allow call has read of its key is
\* still what the map holds when the call decides.
C21_MutualExclusion ==
    /\ [](/\ Cardinality(ActiveSections) <= 1
          /\ \A h \in ActiveSections : mu = h
          /\ \A p \in Procs :
                pc[p] = "decide" =>
                    validRequests[p] = Prune(Get(requests, ip[p]), tnow[p]))
    /\ [][constructed /\ requests' # requests =>
             /\ mu \in ActiveSections
             /\ mu' = "free"]_vars

\* an Allow call holds the mutex while the other goroutine and the cleanup
\* loop wait for it
C21_Witness ==
    /\ pc["g1"] = "decide"
    /\ pc["g2"] = "lock"
    /\ cpc = "lock"
    /\ mu = "g1"

\* a step of goroutine p's Allow call, and the key of that call
AllowStepOf(p) == pc'[p] # pc[p]
KeyOf(p) == IF pc[p] = "idle" THEN ip'[p] ELSE ip[p]

\* C23: a call Allow(k) changes at most the entry of k: every other key is
\* in the map after the call exactly when it was before, with the same
\* sequence; limit and the stop channel are as they were (the window is a
\* constant).
C23_AllowFrame ==
    [][\A p \in Procs : AllowStepOf(p) =>
          /\ \A k \in (DOMAIN requests \cup DOMAIN requests') \ {KeyOf(p)} :
                /\ k \in DOMAIN requests
                /\ k \in DOMAIN requests'
                /\ requests'[k] = requests[k]
          /\ limit' = limit
          /\ cleanupStop' = cleanupStop
          /\ constructed' = constructed]_vars

\* a call of A has stored a new timestamp while B's entry is in the map and
\* the stop channel is closed
C23_Witness ==
    /\ Returned
    /\ last.key = "A"
    /\ last.ok
    /\ "B" \in DOMAIN requests
    /\ cleanupStop = "closed"

\* C27: with limit >= 1, right after Allow(key) returned at time t the
\* sequence stored for key is the list, in order and with repetitions, of
\* the times later than t - window of the calls of key that were allowed.
C27_StoredIsAdmittedHistory ==
    limit >= 1 /\ Returned =>
        last.post = SelectSeq(admitted[last.key], LAMBDA t : t > last.t - Window)

\* a call returned after an allowed call of its key had left the window and
\* a rejected call had been made
C27_Witness ==
    /\ limit >= 1
    /\ Returned
    /\ Rejections(last.key) >= 1
    /\ Len(last.post) < Len(admitted[last.key])
    /\ last.post # <<>>

\* C28: with limit >= 1 no key in the map has an empty sequence, so the map
\* has at most as many keys as timestamps.
C28_NoEmptyEntries ==
    limit >= 1 =>
        /\ \A k \in DOMAIN requests : requests[k] # <<>>
        /\ Cardinality(DOMAIN requests) <=
              Len(Get(requests, "A")) + Len(Get(requests, "B"))

\* a pass has deleted a key that a rejected call had left with its sequence
C28_Witness ==
    /\ limit >= 1
    /\ Rejections("A") >= 1
    /\ "A" \notin DOMAIN requests
    /\ cpc = "select"


\* ------------------------------------------------------------- progress
\* C22: the mutex is released when an Allow call ends (by return or by
\* panic) and when a cleanup pass ends; Stop can be taken whoever holds the
\* mutex; and every Allow call that has begun ends, whatever the other
\* calls, the cleanup loop and Stop do.
C22_NoCallBlocks ==
    /\ [][/\ \A p \in Procs : pc[p] = "decide" /\ pc'[p] = "idle" => mu' = "free"
          /\ cpc = "pass" /\ cpc' # "pass" => mu' = "free"]_vars
    /\ [](constructed => ENABLED Stop)
    /\ \A p \in Procs : (pc[p] # "idle") ~> (pc[p] = "idle")

\* a call waits for the mutex that the cleanup pass holds, after Stop
C22_Witness ==
    /\ pc["g1"] = "lock"
    /\ mu = "cleanup"
    /\ cleanupStop = "closed"

\* C24: once Stop has closed the channel the cleanup goroutine ends, and
\* stays ended; after that only Allow calls change the map; Stop can be
\* taken while Allow calls are in flight; and every Allow call, before,
\* during or after Stop, returns what a limiter that is sent the same calls
\* and nothing else returns.
C24_Cancellation ==
    /\ (cleanupStop = "closed") ~> (cpc = "done")
    /\ [][cpc = "done" =>
             /\ cpc' = "done"
             /\ requests' # requests =>
                   \E p \in Procs : pc[p] = "decide" /\ pc'[p] = "idle"]_vars
    /\ [](constructed /\ (\E p \in Procs : pc[p] # "idle") => ENABLED Stop)
    /\ [](Decided => Result(last) = last.bare)

\* the cleanup goroutine has ended and a call made since has been allowed
C24_Witness ==
    /\ cpc = "done"
    /\ cleanupStop = "closed"
    /\ Returned
    /\ last.ok
    /\ \E p \in Procs : pc[p] = "decide"


\* --------------------------------------------------------- advertised delay
\* C26: when Allow(key) was rejected at time t with retryAfter = r and the
\* next call of the key comes r seconds later or more, that call is allowed,
\* whatever the age of the oldest counted timestamp was.
C26_WaitIsSufficient ==
    [][\A k \in Keys :
          /\ Rejected
          /\ last.key = k
          /\ calls'[k] = calls[k] + 1
          /\ last'.t >= last.t + last.retry * TicksPerSec
          => last'.ok]_vars


\* ------------------------------------------------------- one running session
\* C29: in every reachable state, under every interleaving of concurrent
\* StartSession and StopSession calls, at most one session has the status
\* "running".
C29_SingleRunningSession ==
    Cardinality(RunningIDs(rows)) <= 1


\* ------------------------------------------------------- lifecycle of the App
\* C25: the constructor starts the cleanup goroutine at once, one per limiter,
\* and in every execution of construct, run and shut down, Shutdown called
\* more than once included, Stop is called on the limiter exactly once,
\* before the process exits.
C25_StopExactlyOnce ==
    /\ app # "none" => constructed /\ cpc # "off"
    /\ stops <= 1
    /\ app = "exited" => stops = 1

\* C30: during App.Shutdown no request that was admitted and is still in
\* flight runs a database operation after the database was closed: the
\* database is closed only after the server has drained its requests.
C30_CloseAfterDrain ==
    /\ [][\A p \in Procs :
             hpc[p] = "admitted" /\ hpc'[p] = "queried" => db = "open"]_vars
    /\ [](db = "closed" => \A p \in Procs : hpc[p] = "idle")

====
